---- MODULE Spec2Model ----
(***************************************************************************)
(* Model of script.py, the JAMD calendar scraper: fetch one response per   *)
(* month, extract the events of each response, and write the collected     *)
(* events as CSV, JSON and iCalendar files.                                *)
(*                                                                         *)
(* Texts are sequences of one-character strings.  A Python dict is a       *)
(* function whose DOMAIN is the set of keys present.                       *)
(***************************************************************************)
EXTENDS Integers, Sequences, FiniteSets, TLC

VARIABLES
    pc,            \* position of the program / of the call being checked
    caller,        \* "main" (__main__), "direct" (scrape_calendar called alone), "text"
    pool,          \* the responses fetch_month_calendar may return in this behaviour
    runs,          \* number of runs of __main__ started so far
    now,           \* wall clock of the current run (datetime.now())
    localOffset,   \* UTC offset, in hours, of the machine's local time zone
    start_date,    \* scrape_calendar: datetime(start_year, start_month, 1)
    current_date,  \* scrape_calendar: loop variable
    end_date,      \* scrape_calendar: datetime(end_year, end_month, 1)
    all_events,    \* scrape_calendar: the list being built / returned
    calls,         \* history: the (year, month) of every fetch_month_calendar call
    successes,     \* history: the truthy responses received, in call order
    csvFile,       \* <<>> when the file does not exist, else <<content>>
    jsonFile,
    icsFile,
    lastCsv,       \* history: <<>> or <<events>> of the latest save_to_csv call
    lastJson,
    lastIcs,       \* history: <<>> or <<[events, now, off]>> of the latest save_to_ics call
    prevIcs,       \* history: lastIcs as it was before the latest save_to_ics call
    text,          \* sanitize_ics_text: the argument
    escaped        \* sanitize_ics_text: <<>> before the call, <<result>> after

vars == <<pc, caller, pool, runs, now, localOffset, start_date, current_date,
          end_date, all_events, calls, successes, csvFile, jsonFile, icsFile,
          lastCsv, lastJson, lastIcs, prevIcs, text, escaped>>

scrapeVars == <<start_date, current_date, end_date, all_events, calls, successes>>
fileVars == <<csvFile, jsonFile, icsFile, lastCsv, lastJson, lastIcs, prevIcs>>
textVars == <<text, escaped>>

----------------------------------------------------------------------------
(* Bounds of the model *)

MaxLen == 3        \* longest text handed to sanitize_ics_text on its own
MaxDivs == 2       \* most event <div>s in one month's HTML
MaxResp == 1       \* most truthy responses in one scrape_calendar call
MaxRuns == 2       \* runs of __main__ in one behaviour
YearSpan == 2      \* years from which scrape_calendar's arguments are drawn

(* Program constants *)

MAXYEAR == 9999    \* datetime.MAXYEAR: datetime(year, ...) raises above it
ScrapeDays == 365  \* __main__: end_date = today + timedelta(days=365)
PlusTwo == 2       \* extract_events_from_html: the "+02:00" appended to data-date

----------------------------------------------------------------------------
(* Texts *)

BS == "\\"
NL == "\n"
CR == "\r"

\* Python's None where a text is expected
None == <<"None">>

Chars == {BS, ",", ";", NL, "n", "a"}

RECURSIVE TextsOfLen(_)
TextsOfLen(n) ==
    IF n = 0 THEN {<<>>}
    ELSE {<<c>> \o t : c \in Chars, t \in TextsOfLen(n - 1)}

Texts == UNION {TextsOfLen(n) : n \in 0..MaxLen}

\* str.replace(old, new) for a one-character old
RECURSIVE Replace(_, _, _)
Replace(s, old, new) ==
    IF s = <<>> THEN <<>>
    ELSE (IF Head(s) = old THEN new ELSE <<Head(s)>>) \o Replace(Tail(s), old, new)

\* a faulty variant: the backslash is escaped last, after the other three replacements
sanitize_backslash_last(t) ==
    IF t = None \/ t = <<>> THEN <<>>
    ELSE Replace(Replace(Replace(Replace(t,
             ",", <<BS, ",">>),
             ";", <<BS, ";">>),
             NL, <<BS, "n">>),
             BS, <<BS, BS>>)

\* a faulty variant: the backslash itself is not escaped
sanitize_no_backslash(t) ==
    IF t = None \/ t = <<>> THEN <<>>
    ELSE Replace(Replace(Replace(t,
             ",", <<BS, ",">>),
             ";", <<BS, ";">>),
             NL, <<BS, "n">>)

sanitize_ics_text(t) ==
    IF t = None \/ t = <<>> THEN <<>>
    ELSE Replace(Replace(Replace(Replace(t,
             BS, <<BS, BS>>),
             ",", <<BS, ",">>),
             ";", <<BS, ";">>),
             NL, <<BS, "n">>)

----------------------------------------------------------------------------
(* Dates and times: datetime, timedelta, dateutil.parser, strftime *)

DT(y, m, d, h, mi) == [y |-> y, m |-> m, d |-> d, h |-> h, mi |-> mi]

\* the outcome of an operation that raises (OverflowError, ValueError)
Raised == [raised |-> TRUE]

IsLeap(y) == (y % 4 = 0 /\ y % 100 # 0) \/ y % 400 = 0

DaysInMonth(y, m) ==
    IF m = 2 THEN (IF IsLeap(y) THEN 29 ELSE 28)
    ELSE IF m \in {4, 6, 9, 11} THEN 30 ELSE 31

ValidDate(y, m, d) ==
    /\ y \in 1..MAXYEAR
    /\ m \in 1..12
    /\ d \in 1..DaysInMonth(y, m)

ValidDT(t) == ValidDate(t.y, t.m, t.d) /\ t.h \in 0..23 /\ t.mi \in 0..59

NextDay(t) ==
    IF t.d < DaysInMonth(t.y, t.m) THEN [t EXCEPT !.d = t.d + 1]
    ELSE IF t.m < 12 THEN [t EXCEPT !.m = t.m + 1, !.d = 1]
    ELSE IF t.y < MAXYEAR THEN [t EXCEPT !.y = t.y + 1, !.m = 1, !.d = 1]
    ELSE Raised

PrevDay(t) ==
    IF t.d > 1 THEN [t EXCEPT !.d = t.d - 1]
    ELSE IF t.m > 1 THEN [t EXCEPT !.m = t.m - 1, !.d = DaysInMonth(t.y, t.m - 1)]
    ELSE IF t.y > 1 THEN [t EXCEPT !.y = t.y - 1, !.m = 12, !.d = 31]
    ELSE Raised

\* t + timedelta(days=n), n >= 0
RECURSIVE AddDays(_, _)
AddDays(t, n) ==
    IF t = Raised THEN Raised
    ELSE IF t.d + n <= DaysInMonth(t.y, t.m) THEN [t EXCEPT !.d = t.d + n]
    ELSE AddDays(NextDay([t EXCEPT !.d = DaysInMonth(t.y, t.m)]),
                 n - (DaysInMonth(t.y, t.m) - t.d) - 1)

\* t + timedelta(hours=n), -24 < n < 24
AddHours(t, n) ==
    LET hh == t.h + n IN
    IF hh > 23 THEN
        (IF NextDay(t) = Raised THEN Raised ELSE [NextDay(t) EXCEPT !.h = hh - 24])
    ELSE IF hh < 0 THEN
        (IF PrevDay(t) = Raised THEN Raised ELSE [PrevDay(t) EXCEPT !.h = hh + 24])
    ELSE [t EXCEPT !.h = hh]

\* a < b for two naive datetimes
Before(a, b) ==
    \/ a.y < b.y
    \/ a.y = b.y /\ a.m < b.m
    \/ a.y = b.y /\ a.m = b.m /\ a.d < b.d
    \/ a.y = b.y /\ a.m = b.m /\ a.d = b.d /\ a.h < b.h
    \/ a.y = b.y /\ a.m = b.m /\ a.d = b.d /\ a.h = b.h /\ a.mi < b.mi

\* A datetime string is [k |-> "iso", t |-> fields, tz |-> <<>> or <<offset>>]
\* for text of the shape YYYY-MM-DDTHH:MM:00[+HH:00] (its fields may be out of
\* range), or [k |-> "raw", s |-> text] for any other text.
Iso(t, tz) == [k |-> "iso", t |-> t, tz |-> tz]
RawStr(s) == [k |-> "raw", s |-> s]

\* dateutil.parser.parse: an aware or naive datetime, or Raised
Parse(str) ==
    IF str.k = "iso" /\ ValidDT(str.t) THEN [t |-> str.t, tz |-> str.tz] ELSE Raised

\* datetime.isoformat
IsoFormat(p) == Iso(p.t, p.tz)

DigitChar == <<"0", "1", "2", "3", "4", "5", "6", "7", "8", "9">>

\* the decimal digits of n >= 0, zero-padded to at least w characters
RECURSIVE Dec(_, _)
Dec(n, w) ==
    IF n < 10 /\ w <= 1 THEN <<DigitChar[n + 1]>>
    ELSE Dec(n \div 10, w - 1) \o <<DigitChar[(n % 10) + 1]>>

\* strftime('%Y%m%dT%H%M%S'); the model keeps no seconds
StrfTime(t) ==
    Dec(t.y, 4) \o Dec(t.m, 2) \o Dec(t.d, 2) \o <<"T">>
        \o Dec(t.h, 2) \o Dec(t.mi, 2) \o <<"0", "0">>

\* an aware datetime moved to the machine's local zone
AsLocal(p, off) ==
    IF p.tz = <<>> THEN p.t ELSE AddHours(p.t, off - p.tz[1])

format_ics_datetime(dt_string, off) ==
    IF Parse(dt_string) = Raised THEN None
    ELSE IF AsLocal(Parse(dt_string), off) = Raised THEN None
    ELSE StrfTime(AsLocal(Parse(dt_string), off))

----------------------------------------------------------------------------
(* extract_events_from_html *)

\* dict.get(key, default)
Get(e, key, default) == IF key \in DOMAIN e THEN e[key] ELSE default

Whitespace == {" ", NL, CR}

RECURSIVE LStrip(_)
LStrip(s) ==
    IF s # <<>> /\ Head(s) \in Whitespace THEN LStrip(Tail(s)) ELSE s

RECURSIVE RStrip(_)
RStrip(s) ==
    IF s # <<>> /\ s[Len(s)] \in Whitespace THEN RStrip(SubSeq(s, 1, Len(s) - 1)) ELSE s

\* get_text(strip=True) of an element holding one text node
Strip(s) == RStrip(LStrip(s))

IsDigit(c) == \E i \in 1..10 : DigitChar[i] = c
DigitVal(c) == (CHOOSE i \in 1..10 : DigitChar[i] = c) - 1

\* does r'\d{1,2}:\d{2}' match s at position i, with a two-digit hour (n = 2)
\* or a one-digit hour (n = 1)
TimeAt(s, i, n) ==
    /\ i + n + 2 <= Len(s)
    /\ \A j \in i..(i + n - 1) : IsDigit(s[j])
    /\ s[i + n] = ":"
    /\ IsDigit(s[i + n + 1])
    /\ IsDigit(s[i + n + 2])

\* re.search(r'(\d{1,2}:\d{2})', s): <<>> when nothing matches, else <<[h, mi]>>
\* of the leftmost match, the hour taken greedily
TimeSearch(s) ==
    LET hits == {i \in 1..Len(s) : TimeAt(s, i, 2) \/ TimeAt(s, i, 1)} IN
    IF hits = {} THEN <<>>
    ELSE LET i == CHOOSE k \in hits : \A j \in hits : k <= j IN
         IF TimeAt(s, i, 2)
         THEN <<[h |-> 10 * DigitVal(s[i]) + DigitVal(s[i + 1]),
                 mi |-> 10 * DigitVal(s[i + 3]) + DigitVal(s[i + 4])]>>
         ELSE <<[h |-> DigitVal(s[i]),
                 mi |-> 10 * DigitVal(s[i + 2]) + DigitVal(s[i + 3])]>>

\* date_parser.parse(datetime_str).isoformat(), or datetime_str when parse raises
ParsedOrSame(str) == IF Parse(str) = Raised THEN str ELSE IsoFormat(Parse(str))

\* f"{date_str}T{time_str}:00+02:00" / f"{date_str}T00:00:00+02:00"
TdDateTime(date, display) ==
    LET tm == IF display = None THEN <<>> ELSE TimeSearch(display) IN
    IF tm # <<>>
    THEN Iso(DT(date.y, date.m, date.d, tm[1].h, tm[1].mi), <<PlusTwo>>)
    ELSE Iso(DT(date.y, date.m, date.d, 0, 0), <<PlusTwo>>)

\* The fields one <div class="view-item-calendar_event"> contributes.  A div is a
\* function over a subset of: "title" (text of the title link), "href" (its
\* href), "date_display" (text of the date span), "content" (the span's content
\* attribute, a datetime string), "data_date" (the parent td's data-date, a
\* record y, m, d) and "location" (text of the location field).
TitlePart(div) ==
    IF "title" \in DOMAIN div
    THEN [x \in {"title", "url"} |->
             IF x = "title" THEN Strip(div["title"])
             ELSE <<"https://www.jamd.ac.il">> \o Get(div, "href", <<>>)]
    ELSE <<>>

DisplayPart(div) ==
    IF "date_display" \in DOMAIN div
    THEN [x \in {"date_display"} |-> Strip(div["date_display"])]
    ELSE <<>>

\* method 1: the content attribute of the date span
ContentPart(div) ==
    IF "date_display" \in DOMAIN div /\ "content" \in DOMAIN div
    THEN [x \in {"datetime"} |-> ParsedOrSame(div["content"])]
    ELSE <<>>

\* method 2: the parent td's data-date and a time found in the displayed text
TdPart(div) ==
    IF ContentPart(div) = <<>> /\ "data_date" \in DOMAIN div
    THEN [x \in {"datetime"} |->
             ParsedOrSame(TdDateTime(div["data_date"],
                                     Get(DisplayPart(div), "date_display", None)))]
    ELSE <<>>

LocationPart(div) ==
    IF "location" \in DOMAIN div
    THEN [x \in {"location"} |-> Strip(div["location"])]
    ELSE <<>>

\* the union of dicts with disjoint keys
Merge(a, b) ==
    [x \in (DOMAIN a) \cup (DOMAIN b) |-> IF x \in DOMAIN a THEN a[x] ELSE b[x]]

EventData(div) ==
    Merge(TitlePart(div),
          Merge(DisplayPart(div),
                Merge(ContentPart(div), Merge(TdPart(div), LocationPart(div)))))

RECURSIVE extract_events_from_html(_)
extract_events_from_html(html) ==
    IF html = <<>> THEN <<>>
    ELSE (IF Get(EventData(Head(html)), "title", <<>>) # <<>>
          THEN <<EventData(Head(html))>> ELSE <<>>)
         \o extract_events_from_html(Tail(html))

----------------------------------------------------------------------------
(* The inputs: event divs, HTML, responses of fetch_month_calendar *)

DivConcert ==
    [title |-> <<" ", "a", ",">>, href |-> <<"/", "c">>,
     date_display |-> <<"2", "0", ":", "0", "0">>,
     content |-> Iso(DT(2028, 1, 5, 20, 0), <<PlusTwo>>),
     location |-> <<"H", ";">>]

\* an event earlier in the month from which the scrape starts
DivPast ==
    [title |-> <<"p">>, href |-> <<"/", "p">>,
     date_display |-> <<"1", "8", ":", "0", "0">>,
     content |-> Iso(DT(2027, 12, 1, 18, 0), <<PlusTwo>>),
     location |-> <<"H">>]

\* no location; no content attribute, so the date comes from the td
DivNoLoc ==
    [title |-> <<"q">>, href |-> <<"/", "q">>,
     date_display |-> <<"a", "9", ":", "3", "0">>,
     data_date |-> [y |-> 2028, m |-> 2, d |-> 3]]

DivNoTitle ==
    [date_display |-> <<"1", "8", ":", "0", "0">>,
     content |-> Iso(DT(2028, 1, 5, 18, 0), <<PlusTwo>>),
     location |-> <<"H">>]

\* the last half hour datetime can hold
DivLate ==
    [title |-> <<"z">>, href |-> <<"/", "z">>,
     date_display |-> <<"2", "3", ":", "3", "0">>,
     content |-> Iso(DT(MAXYEAR, 12, 31, 23, 30), <<>>),
     location |-> <<"H">>]

\* a date text that does not parse
DivBadDate ==
    [title |-> <<"b">>,
     date_display |-> <<"?">>,
     content |-> RawStr(<<"?">>),
     location |-> <<"H">>]

\* no date at all
DivNoDate ==
    [title |-> <<"d", NL>>, href |-> <<"/", "d">>, location |-> <<"H">>]

SampleDivs ==
    {DivConcert, DivPast, DivNoLoc, DivNoTitle, DivLate, DivBadDate, DivNoDate}

RECURSIVE HtmlsOfLen(_)
HtmlsOfLen(n) ==
    IF n = 0 THEN {<<>>}
    ELSE {<<d>> \o h : d \in SampleDivs, h \in HtmlsOfLen(n - 1)}

Htmls == UNION {HtmlsOfLen(n) : n \in 0..MaxDivs}

\* What fetch_month_calendar returns: None, or the JSON value of the response.
\* Drupal answers with an array of command objects; any other JSON value is
\* stood for by one non-empty JSON object.
RespNone == [kind |-> "none"]
RespObject == [kind |-> "object"]
RespArray(cmds) == [kind |-> "array", cmds |-> cmds]
Cmd(c, data) == [command |-> c, data |-> data]

MainResponses ==
    {RespNone, RespObject, RespArray(<<>>)}
        \cup {RespArray(<<Cmd("settings", <<DivPast>>), Cmd("insert", h)>>) : h \in Htmls}

ScrapeResponses ==
    {RespNone, RespObject, RespArray(<<>>),
     RespArray(<<Cmd("settings", <<DivPast>>), Cmd("insert", <<DivConcert>>)>>),
     RespArray(<<Cmd("insert", <<DivNoTitle, DivNoLoc>>), Cmd("insert", <<DivConcert>>)>>)}

\* `if json_response:`
Truthy(resp) ==
    \/ resp.kind = "object"
    \/ resp.kind = "array" /\ resp.cmds # <<>>

\* the events the loop over the commands appends
RECURSIVE CommandEvents(_)
CommandEvents(cmds) ==
    IF cmds = <<>> THEN <<>>
    ELSE (IF Head(cmds).command = "insert"
          THEN extract_events_from_html(Head(cmds).data) ELSE <<>>)
         \o CommandEvents(Tail(cmds))

----------------------------------------------------------------------------
(* scrape_calendar *)

Month(y, m) == [y |-> y, m |-> m]

\* current_date <= end_date
MonthLE(a, b) == a.y < b.y \/ (a.y = b.y /\ a.m <= b.m)

\* a faulty variant: December steps to January of the same year
NextMonth_same_year(cd) ==
    IF cd.m = 12 THEN Month(cd.y, 1) ELSE Month(cd.y, cd.m + 1)

\* "Move to next month": datetime(year + 1, 1, 1) raises ValueError above MAXYEAR
NextMonth(cd) ==
    IF cd.m = 12
    THEN (IF cd.y + 1 > MAXYEAR THEN Raised ELSE Month(cd.y + 1, 1))
    ELSE Month(cd.y, cd.m + 1)

\* One pass of the while loop: fetch the month; a truthy response is iterated as
\* a list of command dicts (a JSON object yields its keys, and str has no .get:
\* AttributeError); then step to the next month.
scrape_calendar_iteration(resp) ==
    /\ pc = "loop"
    /\ MonthLE(current_date, end_date)
    /\ resp \in pool
    /\ resp # RespNone => Len(successes) < MaxResp
    /\ calls' = Append(calls, current_date)
    /\ successes' = IF resp = RespNone THEN successes ELSE Append(successes, resp)
    /\ IF Truthy(resp) /\ resp.kind # "array"
       THEN /\ pc' = "crashed"
            /\ UNCHANGED <<all_events, current_date>>
       ELSE /\ all_events' = all_events \o
                   (IF Truthy(resp) THEN CommandEvents(resp.cmds) ELSE <<>>)
            /\ IF NextMonth(current_date) = Raised
               THEN /\ pc' = "crashed"
                    /\ UNCHANGED current_date
               ELSE /\ pc' = "loop"
                    /\ current_date' = NextMonth(current_date)
    /\ UNCHANGED <<caller, pool, runs, now, localOffset, start_date, end_date>>
    /\ UNCHANGED fileVars
    /\ UNCHANGED textVars

scrape_calendar_return ==
    /\ pc = "loop"
    /\ ~MonthLE(current_date, end_date)
    /\ pc' = IF caller = "main" THEN "csv" ELSE "returned"
    /\ UNCHANGED <<caller, pool, runs, now, localOffset>>
    /\ UNCHANGED scrapeVars
    /\ UNCHANGED fileVars
    /\ UNCHANGED textVars

Years == (MAXYEAR - YearSpan + 1)..MAXYEAR

\* scrape_calendar called on its own, with every start and end month
InitScrape ==
    /\ pc = "loop"
    /\ caller = "direct"
    /\ pool = ScrapeResponses
    /\ runs = 0
    /\ now = <<>>
    /\ localOffset = 0
    /\ \E sy \in Years, sm \in 1..12 : start_date = Month(sy, sm)
    /\ \E ey \in Years, em \in 1..12 : end_date = Month(ey, em)
    /\ current_date = start_date
    /\ all_events = <<>>
    /\ calls = <<>>
    /\ successes = <<>>
    /\ csvFile = <<>>
    /\ jsonFile = <<>>
    /\ icsFile = <<>>
    /\ lastCsv = <<>>
    /\ lastJson = <<>>
    /\ lastIcs = <<>>
    /\ prevIcs = <<>>
    /\ text = <<>>
    /\ escaped = <<>>

NextScrape ==
    \/ \E resp \in ScrapeResponses : scrape_calendar_iteration(resp)
    \/ scrape_calendar_return

SpecScrape == InitScrape /\ [][NextScrape]_vars

----------------------------------------------------------------------------
(* save_to_csv, save_to_json, save_to_ics *)

NoText == <<>>
NoDateTime == RawStr(<<>>)

\* csv.DictWriter: the header, then one row per event, '' for a missing key
CsvRow(e) ==
    <<Get(e, "title", NoText), Get(e, "datetime", NoDateTime),
      Get(e, "date_display", NoText), Get(e, "location", NoText),
      Get(e, "url", NoText)>>

CsvRows(events) ==
    <<<<"title", "datetime", "date_display", "location", "url">>>>
        \o [i \in 1..Len(events) |-> CsvRow(events[i])]

\* json.dump(events): the array of the events' objects
JsonDump(events) == [array |-> events]

\* the first seven lines of every calendar file; a line is its tag followed by
\* the characters of its value
IcsHeader ==
    <<<<"BEGIN:", "VCALENDAR">>,
      <<"VERSION:", "2.0">>,
      <<"PRODID:", "-//JAMD Calendar Scraper//EN">>,
      <<"CALSCALE:", "GREGORIAN">>,
      <<"METHOD:", "PUBLISH">>,
      <<"X-WR-CALNAME:", "JAMD Events">>,
      <<"X-WR-TIMEZONE:", "Asia/Jerusalem">>>>

\* dtstart of an event, None when the loop skips it (`continue`)
DtStart(e, off) ==
    IF Get(e, "datetime", NoDateTime) = NoDateTime THEN None
    ELSE format_ics_datetime(e["datetime"], off)

\* "Default duration: 1 hour": None when dt + timedelta(hours=1) raises
DtEnd(e, off) ==
    LET dt == Parse(e["datetime"]) IN
    IF dt = Raised THEN None
    ELSE IF AddHours(dt.t, 1) = Raised THEN None
    ELSE format_ics_datetime(IsoFormat([t |-> AddHours(dt.t, 1), tz |-> dt.tz]), off)

\* f"event-{idx}-{dtstart}@jamd.ac.il"
Uid(idx, dtstart) ==
    <<"event-">> \o Dec(idx, 1) \o <<"-">> \o dtstart \o <<"@jamd.ac.il">>

\* datetime.now().astimezone().strftime('%Y%m%dT%H%M%SZ')
DtStamp(clock) == StrfTime(clock) \o <<"Z">>

Optional(tag, value) == IF value = <<>> \/ value = None THEN <<>> ELSE <<<<tag>> \o value>>

\* the lines of the event at position idx (from 0), none when it is skipped
EventLines(e, idx, clock, off) ==
    IF DtStart(e, off) = None THEN <<>>
    ELSE <<<<"BEGIN:", "VEVENT">>,
           <<"UID:">> \o Uid(idx, DtStart(e, off)),
           <<"DTSTAMP:">> \o DtStamp(clock),
           <<"DTSTART:">> \o DtStart(e, off)>>
         \o Optional("DTEND:", DtEnd(e, off))
         \o <<<<"SUMMARY:">> \o sanitize_ics_text(Get(e, "title", <<"No Title">>)),
              <<"DESCRIPTION:">> \o sanitize_ics_text(Get(e, "date_display", NoText))>>
         \o Optional("LOCATION:", sanitize_ics_text(Get(e, "location", NoText)))
         \o Optional("URL:", Get(e, "url", NoText))
         \o <<<<"STATUS:", "CONFIRMED">>,
              <<"END:", "VEVENT">>>>

RECURSIVE AllEventLines(_, _, _, _)
AllEventLines(events, i, clock, off) ==
    IF i > Len(events) THEN <<>>
    ELSE EventLines(events[i], i - 1, clock, off) \o AllEventLines(events, i + 1, clock, off)

IcsLines(events, clock, off) ==
    IcsHeader \o AllEventLines(events, 1, clock, off) \o <<<<"END:", "VCALENDAR">>>>

\* '\r\n'.join(lines)
RECURSIVE JoinCRLF(_)
JoinCRLF(lines) ==
    IF lines = <<>> THEN <<>>
    ELSE IF Len(lines) = 1 THEN lines[1]
    ELSE lines[1] \o <<CR, NL>> \o JoinCRLF(Tail(lines))

IcsText(events, clock, off) == JoinCRLF(IcsLines(events, clock, off))

save_to_csv ==
    /\ pc = "csv"
    /\ lastCsv' = <<all_events>>
    /\ csvFile' = IF all_events = <<>> THEN csvFile ELSE <<CsvRows(all_events)>>
    /\ pc' = "json"
    /\ UNCHANGED <<caller, pool, runs, now, localOffset>>
    /\ UNCHANGED <<jsonFile, icsFile, lastJson, lastIcs, prevIcs>>
    /\ UNCHANGED scrapeVars
    /\ UNCHANGED textVars

save_to_json ==
    /\ pc = "json"
    /\ lastJson' = <<all_events>>
    /\ jsonFile' = <<JsonDump(all_events)>>
    /\ pc' = "ics"
    /\ UNCHANGED <<caller, pool, runs, now, localOffset>>
    /\ UNCHANGED <<csvFile, icsFile, lastCsv, lastIcs, prevIcs>>
    /\ UNCHANGED scrapeVars
    /\ UNCHANGED textVars

save_to_ics ==
    /\ pc = "ics"
    /\ prevIcs' = lastIcs
    /\ lastIcs' = <<[events |-> all_events, clock |-> now]>>
    /\ icsFile' = IF all_events = <<>> THEN icsFile
                  ELSE <<IcsText(all_events, now, localOffset)>>
    /\ pc' = "done"
    /\ UNCHANGED <<caller, pool, runs, now, localOffset>>
    /\ UNCHANGED <<csvFile, jsonFile, lastCsv, lastJson>>
    /\ UNCHANGED scrapeVars
    /\ UNCHANGED textVars

----------------------------------------------------------------------------
(* __main__: one run scrapes from the current month to the month 365 days
   ahead and saves the three files; the files outlive the run, and the clock
   has moved on when the next run starts *)

Nows == {DT(2027, 12, 20, 10, 0), DT(2028, 1, 1, 9, 0)}
LocalOffsets == {0, PlusTwo}

main_start ==
    /\ pc \in {"idle", "done", "crashed"}
    /\ caller = "main"
    /\ runs < MaxRuns
    /\ runs' = runs + 1
    /\ \E today \in Nows :
          /\ runs > 0 => Before(now, today)
          /\ now' = today
          /\ start_date' = Month(today.y, today.m)
          /\ current_date' = Month(today.y, today.m)
          /\ end_date' = Month(AddDays(today, ScrapeDays).y, AddDays(today, ScrapeDays).m)
    /\ all_events' = <<>>
    /\ calls' = <<>>
    /\ successes' = <<>>
    /\ pc' = "loop"
    /\ UNCHANGED <<caller, pool, localOffset>>
    /\ UNCHANGED fileVars
    /\ UNCHANGED textVars

Init ==
    /\ pc = "idle"
    /\ caller = "main"
    /\ pool = MainResponses
    /\ runs = 0
    /\ now = <<>>
    /\ localOffset \in LocalOffsets
    /\ start_date = <<>>
    /\ current_date = <<>>
    /\ end_date = <<>>
    /\ all_events = <<>>
    /\ calls = <<>>
    /\ successes = <<>>
    /\ csvFile = <<>>
    /\ jsonFile = <<>>
    /\ icsFile = <<>>
    /\ lastCsv = <<>>
    /\ lastJson = <<>>
    /\ lastIcs = <<>>
    /\ prevIcs = <<>>
    /\ text = <<>>
    /\ escaped = <<>>

Next ==
    \/ main_start
    \/ \E resp \in MainResponses : scrape_calendar_iteration(resp)
    \/ scrape_calendar_return
    \/ save_to_csv
    \/ save_to_json
    \/ save_to_ics

Spec == Init /\ [][Next]_vars

----------------------------------------------------------------------------
(* sanitize_ics_text called on its own *)

InitText ==
    /\ pc = "text_call"
    /\ caller = "text"
    /\ text \in Texts \cup {None}
    /\ escaped = <<>>
    /\ pool = {}
    /\ runs = 0
    /\ now = <<>>
    /\ localOffset = 0
    /\ start_date = <<>>
    /\ current_date = <<>>
    /\ end_date = <<>>
    /\ all_events = <<>>
    /\ calls = <<>>
    /\ successes = <<>>
    /\ csvFile = <<>>
    /\ jsonFile = <<>>
    /\ icsFile = <<>>
    /\ lastCsv = <<>>
    /\ lastJson = <<>>
    /\ lastIcs = <<>>
    /\ prevIcs = <<>>

Sanitize ==
    /\ pc = "text_call"
    /\ escaped' = <<sanitize_ics_text(text)>>
    /\ pc' = "text_done"
    /\ UNCHANGED <<caller, pool, runs, now, localOffset, text>>
    /\ UNCHANGED scrapeVars
    /\ UNCHANGED fileVars

NextText == Sanitize

SpecText == InitText /\ [][NextText]_vars

----------------------------------------------------------------------------
(* Claims about sanitize_ics_text *)

\* the escape of one character, as the calendar format defines it
EscChar(c) ==
    IF c \in {BS, ",", ";"} THEN <<BS, c>>
    ELSE IF c = NL THEN <<BS, "n">>
    ELSE <<c>>

RECURSIVE EscapeEach(_)
EscapeEach(s) ==
    IF s = <<>> THEN <<>> ELSE EscChar(Head(s)) \o EscapeEach(Tail(s))

\* the inverse unescape: read left to right, a backslash followed by c yields c,
\* or a newline when c is n
RECURSIVE Unescape(_)
Unescape(s) ==
    IF s = <<>> THEN <<>>
    ELSE IF Head(s) = BS /\ Len(s) >= 2
         THEN <<IF s[2] = "n" THEN NL ELSE s[2]>> \o Unescape(Tail(Tail(s)))
         ELSE <<Head(s)>> \o Unescape(Tail(s))

\* C1: the result is the text with each backslash, comma and semicolon preceded
\* by exactly one backslash, each newline replaced by backslash n, every other
\* character unchanged and in place; an empty or absent text yields the empty
\* string.
C1_EscapesEachCharOnce ==
    pc = "text_done" =>
        escaped[1] = (IF text = None THEN <<>> ELSE EscapeEach(text))

C1_Witness ==
    /\ pc = "text_done"
    /\ text = <<BS, NL, ",">>
    /\ escaped = <<<<BS, BS, BS, "n", BS, ",">>>>

\* C2: unescaping the escaped text gives back the text, so two different texts
\* never escape to the same string.
C2_RoundTrip ==
    (pc = "text_done" /\ text # None) =>
        /\ Unescape(escaped[1]) = text
        /\ \A u \in Texts : sanitize_ics_text(u) = escaped[1] => u = text

C2_Witness ==
    /\ pc = "text_done"
    /\ text = <<BS, "n", NL>>
    /\ escaped = <<<<BS, BS, "n", BS, "n">>>>
    /\ Unescape(escaped[1]) = text

----------------------------------------------------------------------------
(* Claims about scrape_calendar *)

MonthIndex(md) == 12 * md.y + (md.m - 1)
MonthOfIndex(i) == Month(i \div 12, (i % 12) + 1)

\* every calendar month from a to b inclusive, ascending; empty when a is after b
MonthRange(a, b) ==
    IF MonthIndex(a) > MonthIndex(b) THEN <<>>
    ELSE [i \in 1..(MonthIndex(b) - MonthIndex(a) + 1) |->
             MonthOfIndex(MonthIndex(a) + i - 1)]

IsPrefix(p, q) == Len(p) <= Len(q) /\ \A i \in 1..Len(p) : p[i] = q[i]

\* the events of the insert commands of one response
RECURSIVE InsertedEvents(_, _)
InsertedEvents(cmds, i) ==
    IF i > Len(cmds) THEN <<>>
    ELSE (IF cmds[i].command = "insert"
          THEN extract_events_from_html(cmds[i].data) ELSE <<>>)
         \o InsertedEvents(cmds, i + 1)

\* the concatenation, in call order, of the events of the responses received
RECURSIVE ConcatEvents(_, _)
ConcatEvents(resps, i) ==
    IF i > Len(resps) THEN <<>>
    ELSE (IF resps[i].kind = "array" THEN InsertedEvents(resps[i].cmds, 1) ELSE <<>>)
         \o ConcatEvents(resps, i + 1)

CommandArrays == \A i \in 1..Len(successes) : successes[i].kind = "array"

\* The months are fetched once each, in ascending order, and nothing else is;
\* the loop goes on exactly while months are left, so it ends after
\* Len(MonthRange) iterations.
FetchesFollowRange ==
    /\ IsPrefix(calls, MonthRange(start_date, end_date))
    /\ pc = "loop" =>
           (MonthLE(current_date, end_date)
                <=> Len(calls) < Len(MonthRange(start_date, end_date)))

ReturnsConcatenation ==
    pc = "returned" =>
        /\ calls = MonthRange(start_date, end_date)
        /\ all_events = ConcatEvents(successes, 1)

----------------------------------------------------------------------------
(* Claims about the saved files and the run *)

\* the positions at which a CR LF pair starts
Breaks(s) == {i \in 1..(Len(s) - 1) : s[i] = CR /\ s[i + 1] = NL}

NthBreak(s, k) ==
    CHOOSE p \in Breaks(s) : Cardinality({q \in Breaks(s) : q < p}) = k - 1

\* the lines of a CRLF-joined text
SplitCRLF(s) ==
    LET n == Cardinality(Breaks(s)) + 1 IN
    [k \in 1..n |->
        SubSeq(s,
               IF k = 1 THEN 1 ELSE NthBreak(s, k - 1) + 2,
               IF k = n THEN Len(s) ELSE NthBreak(s, k) - 1)]

Tag(line) == IF line = <<>> THEN "" ELSE line[1]

BeginEvent == <<"BEGIN:", "VEVENT">>
EndEvent == <<"END:", "VEVENT">>

Begins(L) == {i \in 1..Len(L) : L[i] = BeginEvent}
Ends(L) == {i \in 1..Len(L) : L[i] = EndEvent}

\* every BEGIN:VEVENT is closed before the next one opens, every END:VEVENT
\* closes one
BlocksNotNested(L) ==
    /\ \A b \in Begins(L) : \E e \in Ends(L) :
          e > b /\ \A k \in (b + 1)..(e - 1) : k \notin Begins(L) \cup Ends(L)
    /\ \A e \in Ends(L) : \E b \in Begins(L) :
          b < e /\ \A k \in (b + 1)..(e - 1) : k \notin Begins(L) \cup Ends(L)

BlockEnd(L, b) == CHOOSE e \in Ends(L) : e > b /\ \A k \in Ends(L) : k > b => e <= k

TagCount(L, b, tag) ==
    Cardinality({k \in b..BlockEnd(L, b) : Tag(L[k]) = tag})

BlockComplete(L, b) ==
    /\ \A tag \in {"UID:", "DTSTAMP:", "DTSTART:", "DTEND:", "SUMMARY:"} :
          TagCount(L, b, tag) = 1
    /\ \E k \in b..BlockEnd(L, b) : L[k] = <<"STATUS:", "CONFIRMED">>

HeaderBeforeEvents(L) ==
    \A h \in {<<"PRODID:", "-//JAMD Calendar Scraper//EN">>, <<"VERSION:", "2.0">>,
              <<"CALSCALE:", "GREGORIAN">>, <<"METHOD:", "PUBLISH">>} :
        \E i \in 1..Len(L) : L[i] = h /\ \A b \in Begins(L) : i < b

CalendarWellFormed(L) ==
    /\ L[1] = <<"BEGIN:", "VCALENDAR">>
    /\ L[Len(L)] = <<"END:", "VCALENDAR">>
    /\ HeaderBeforeEvents(L)
    /\ BlocksNotNested(L)
    /\ \A b \in Begins(L) : BlockComplete(L, b)

\* C3: every file save_to_ics writes is a CRLF-joined calendar whose header
\* comes before the event blocks, whose blocks are not nested, and whose every
\* block has exactly one UID, DTSTAMP, DTSTART, DTEND and SUMMARY and a
\* STATUS:CONFIRMED line.
C3_EveryBlockComplete ==
    icsFile # <<>> => CalendarWellFormed(SplitCRLF(icsFile[1]))

\* C4: the content of each output file is the serialization of the event list
\* of the most recent call of its save operation, never content left by an
\* earlier call.
C4_FileIsLatestSave ==
    /\ (lastCsv # <<>> /\ csvFile # <<>>) => csvFile[1] = CsvRows(lastCsv[1])
    /\ lastJson # <<>> => jsonFile = <<JsonDump(lastJson[1])>>
    /\ (lastIcs # <<>> /\ icsFile # <<>>) =>
           icsFile[1] = IcsText(lastIcs[1].events, lastIcs[1].clock, localOffset)

\* the records the latest save_to_json wrote
Persisted == IF jsonFile = <<>> THEN <<>> ELSE jsonFile[1].array

\* the records for which save_to_ics writes a VEVENT
Emitted(events) ==
    SelectSeq(events, LAMBDA e : DtStart(e, localOffset) # None)

\* the start of a record in the machine's local time, Raised when it has none
LocalStart(e) ==
    IF Get(e, "datetime", NoDateTime) = NoDateTime THEN Raised
    ELSE IF Parse(e["datetime"]) = Raised THEN Raised
    ELSE AsLocal(Parse(e["datetime"]), localOffset)

\* C5: after a run at instant now, no persisted record and no VEVENT has a
\* start strictly before now.
C5_NoPastEvent ==
    pc = "done" =>
        /\ \A i \in 1..Len(Persisted) :
               LocalStart(Persisted[i]) # Raised
                   => ~Before(LocalStart(Persisted[i]), now)
        /\ \A i \in 1..Len(Emitted(all_events)) :
               ~Before(LocalStart(Emitted(all_events)[i]), now)

Identity(e) ==
    <<Get(e, "title", NoText), Get(e, "date_display", NoText), Get(e, "location", NoText)>>

\* C6: the persisted collection has one entry per distinct (title, date text,
\* location).
C6_OneEntryPerIdentity ==
    pc = "done" =>
        \A i, j \in 1..Len(Persisted) :
            Identity(Persisted[i]) = Identity(Persisted[j]) => i = j

\* every record of the batch: one per event div of the insert commands received
RECURSIVE DivRecords(_, _)
DivRecords(html, i) ==
    IF i > Len(html) THEN <<>>
    ELSE <<EventData(html[i])>> \o DivRecords(html, i + 1)

RECURSIVE CommandRecords(_, _)
CommandRecords(cmds, i) ==
    IF i > Len(cmds) THEN <<>>
    ELSE (IF cmds[i].command = "insert" THEN DivRecords(cmds[i].data, 1) ELSE <<>>)
         \o CommandRecords(cmds, i + 1)

RECURSIVE BatchRecords(_, _)
BatchRecords(resps, i) ==
    IF i > Len(resps) THEN <<>>
    ELSE (IF resps[i].kind = "array" THEN CommandRecords(resps[i].cmds, 1) ELSE <<>>)
         \o BatchRecords(resps, i + 1)

\* title, date and location are all there
HasAllFields(e) ==
    /\ Get(e, "title", NoText) # NoText
    /\ Get(e, "date_display", NoText) # NoText
    /\ Get(e, "datetime", NoDateTime) # NoDateTime
    /\ Get(e, "location", NoText) # NoText

\* C7: the persisted records are the records of the batch that have title, date
\* and location, each as it is in the batch; the others are left out.
C7_OnlyCompleteRecords ==
    pc = "done" =>
        Persisted = SelectSeq(BatchRecords(successes, 1), HasAllFields)

\* C8: a run in which every fetch failed ends in failure and writes no file.
C8_FetchFailureWritesNothing ==
    (caller = "main" /\ runs = 1 /\ pc \in {"csv", "json", "ics", "done"}
        /\ successes = <<>>) =>
        /\ pc # "done"
        /\ csvFile = <<>> /\ jsonFile = <<>> /\ icsFile = <<>>

UidOf(events, i) == Uid(i - 1, DtStart(events[i], localOffset))

\* C9: an event emitted by two runs (same title, date and location) has the same
\* UID in both, whatever else the batches hold.
C9_UidStable ==
    (prevIcs # <<>> /\ lastIcs # <<>>) =>
        \A i \in 1..Len(prevIcs[1].events), j \in 1..Len(lastIcs[1].events) :
            (/\ DtStart(prevIcs[1].events[i], localOffset) # None
             /\ DtStart(lastIcs[1].events[j], localOffset) # None
             /\ Identity(prevIcs[1].events[i]) = Identity(lastIcs[1].events[j]))
            => UidOf(prevIcs[1].events, i) = UidOf(lastIcs[1].events, j)

====
